---- MODULE Spec2Model ----
(***************************************************************************)
(* Model of run_task and _save_results of src/openeotest.py: one remote   *)
(* batch job is submitted, started, polled until a terminal status or the *)
(* timeout, its results are downloaded, and the run record is saved.      *)
(*                                                                         *)
(* Time is counted in ticks of 1/16 s, the resolution at which every      *)
(* value of poll_interval (5, 7.5, 11.25, 16.875, 25.3125, 30 s) is a     *)
(* whole number.  time.time() and datetime.datetime.now() read the same   *)
(* clock, the variable now.  The clock advances only while a backend call *)
(* or time.sleep runs.                                                     *)
(***************************************************************************)
EXTENDS Integers, Sequences, FiniteSets, TLC

(* ---------------- program constants ---------------- *)

TicksPerSecond == 16

initial_poll_interval == 5 * TicksPerSecond
max_poll_interval == 30 * TicksPerSecond
timeout == 3600 * TicksPerSecond
StillLogEvery == 12

TerminalStatuses == {"finished", "error", "canceled"}

(* ---------------- bounds of the environment ---------------- *)

\* The backend answers freely during the first MaxVaried polls of a run and
\* repeats its previous answer afterwards.
MaxVaried == 3

\* What job.status() can return: the openEO job statuses.
BackendStatuses == {"created", "queued", "running", "finished", "error", "canceled"}

\* How long the backend calls take, in ticks.
SubmitTimes == {0, 1 * TicksPerSecond}
StartTimes == {0, 3590 * TicksPerSecond, 3601 * TicksPerSecond}
PollTimes == {0, 4 * TicksPerSecond}
DownloadTimes == {0, 5 * TicksPerSecond}

(* ---------------- optional values (Python None) ---------------- *)

None == << >>
Some(v) == << v >>
IsSome(x) == x # << >>
Val(x) == x[1]

(* ---------------- state ---------------- *)

VARIABLES
    pc,                 \* position in run_task
    now,                \* the clock, in ticks
    results,            \* the run record (None before it is initialised)
    job_start_time,     \* time.time() before job.start()
    poll_interval,      \* current poll interval, in ticks
    last_status,        \* last status recorded in status_times
    status_times,       \* insertion-ordered dict status -> datetime
    check_count,        \* successful status polls
    saved,              \* the calls of _save_results, in order
    pollTime,           \* how long each job.status() call of this run takes
    prevAnswer,         \* the backend's previous answer to job.status()
    raisedBy,           \* the call whose exception ended the normal path
    calls,              \* how often each backend call was issued
    pollErrors,         \* job.status() calls that raised
    sleepCount,         \* time.sleep calls made
    lastSleep,          \* duration of the latest time.sleep call, in ticks
    stillLogs,          \* "still <status>" log lines emitted
    startTook,          \* how long job.start() took
    describeRaised,     \* job.describe_job() raised
    observed,           \* the statuses job.status() has returned in this run
    firstSeen,          \* each returned status with the time of its first return
    regressed,          \* a status was returned again after another one
    fs,                 \* the file system: directory -> file -> content
    inv,                \* the invocations of run_task seen from the file system
    ticks,              \* clock advances between the steps of invocations
    outfile,            \* the output CSV file of the checker: its lines
    chk,                \* the invocations of process_csv / process_single_url
    overlapped          \* an invocation began while another one was running

vars == << pc, now, results, job_start_time, poll_interval, last_status,
           status_times, check_count, saved, pollTime, prevAnswer, raisedBy,
           calls, pollErrors, sleepCount, lastSleep, stillLogs, startTook,
           describeRaised, observed, firstSeen, regressed, fs, inv, ticks,
           outfile, chk, overlapped >>

fileVars == << fs, inv, ticks >>
csvVars == << outfile, chk, overlapped >>
seenVars == << observed, firstSeen, regressed >>
loopVars == << poll_interval, last_status, status_times, check_count >>
envVars == << pollTime, prevAnswer >>
sleepVars == << sleepCount, lastSleep >>

(* ---------------- the ordered dict status_times ---------------- *)

HasKey(d, k) == \E i \in 1..Len(d) : d[i].status = k

Lookup(d, k) == d[CHOOSE i \in 1..Len(d) : d[i].status = k].time

\* d[k] = t : an existing key keeps its position, a new key is appended.
SetItem(d, k, t) ==
    IF HasKey(d, k)
    THEN [i \in 1..Len(d) |-> IF d[i].status = k THEN [status |-> k, time |-> t] ELSE d[i]]
    ELSE Append(d, [status |-> k, time |-> t])

(* ---------------- the run record ---------------- *)

InitialResults(t) ==
    [ status |-> "failed",
      job_id |-> None,
      job_status |-> None,
      start_time |-> t,
      submit_time |-> None,
      start_job_time |-> None,
      job_execution_time |-> None,
      download_time |-> None,
      total_time |-> None,
      queue_time |-> None,
      processing_time |-> None,
      error |-> None,
      job_status_history |-> << >>,
      job_details |-> None ]

NoCalls == [c \in {"create_job", "start", "status", "download", "describe_job"} |-> 0]

Called(c) == [calls EXCEPT ![c] = @ + 1]

\* str(None) = "None", str(status) = status
StatusText(js) == IF IsSome(js) THEN Val(js) ELSE "None"

(* ---------------- _save_results ---------------- *)

\* The record is dumped to results.json; a failure of the write is logged.
SaveResults(r, writeOk) == Append(saved, [record |-> r, written |-> writeOk])

(* ---------------- run_task seen from the file system ---------------- *)
(* Several invocations of run_task, one after the other or interleaved,   *)
(* each reduced to the steps that touch files: the output directory and   *)
(* the copy of the scenario (lines 216-234), the download into the output *)
(* directory (line 414) and the write of results.json (lines 461-467).    *)
(* Names are sequences of tokens: a host name << "a", ".", "org" >>, a     *)
(* scenario path << "ndvi", ".json" >>.                                   *)

\* Invocations of run_task and clock advances in a behaviour of SpecFiles.
MaxRuns == 2
MaxTicks == 1

\* The clock advances by one tick or by one second.
TickSteps == {1, TicksPerSecond}

Hosts == { << "a", ".", "org" >> }
ScenarioPaths == { << "ndvi", ".json" >>, << "evi", ".json" >> }
GivenDirectories == { << "out1" >> }
WorkingDirectory == << "." >>

FileNames == {"processgraph.json", "results.json", "result.tif"}
EmptyDirectory == [f \in FileNames |-> None]

\* datetime.datetime.now().strftime("%Y%m%d%H%M%S"): the clock in whole seconds.
Timestamp(t) == t \div TicksPerSecond

\* hostname.replace('.', '_')
BackendName(hostname) ==
    [k \in 1..Len(hostname) |-> IF hostname[k] = "." THEN "_" ELSE hostname[k]]

\* os.path.basename(scenario_path).replace('.json', '')
NotJsonSuffix(token) == token # ".json"
ScenarioName(scenario_path) == SelectSeq(scenario_path, NotJsonSuffix)

\* os.path.join("output", f"{backend_name}_{scenario_name}_{timestamp}")
DefaultOutputDirectory(hostname, scenario_name, t) ==
    << "output", "/" >> \o BackendName(hostname) \o << "_" >> \o scenario_name
        \o << "_", Timestamp(t) >>

\* if not output_directory: the default name is used.
OutputDirectory(given, hostname, scenario_name, t) ==
    IF IsSome(given) THEN Val(given) ELSE DefaultOutputDirectory(hostname, scenario_name, t)

\* os.makedirs(output_directory, exist_ok=True)
MakeDirs(f, d) == IF d \in DOMAIN f THEN f ELSE f @@ (d :> EmptyDirectory)

\* A file is created or overwritten; the directory must exist.
WriteFile(f, path, content) ==
    IF path[1] \in DOMAIN f
    THEN [f EXCEPT ![path[1]][path[2]] = Some(content)]
    ELSE f

\* ProcessGraphFile with a path that ignores the output directory.
ProcessGraphFileFixed(output_directory) == << WorkingDirectory, "processgraph.json" >>

\* os.path.join(output_directory, "processgraph.json")
ProcessGraphFile(output_directory) == << output_directory, "processgraph.json" >>

\* ResultsFile with a path that ignores the output directory.
ResultsFileFixed(output_directory) == << WorkingDirectory, "results.json" >>

\* os.path.join(output_directory, "results.json")
ResultsFile(output_directory) == << output_directory, "results.json" >>

\* What json.dump writes: the record, with the fields that tell runs apart.
ResultsContent(i, status, complete) ==
    [ process_graph |-> ScenarioName(inv[i].scenario_path),
      start_time |-> inv[i].start_time,
      status |-> status,
      complete |-> complete ]

IdleInvocation ==
    [ phase |-> "idle", hostname |-> << >>, scenario_path |-> << >>,
      given |-> None, dir |-> << >>, start_time |-> 0 ]

InitFiles ==
    /\ fs = (WorkingDirectory :> EmptyDirectory)
    /\ inv = [i \in 1..MaxRuns |-> IdleInvocation]
    /\ ticks = 0

(* ---------------- the output file of the checker ---------------- *)
(* process_csv and process_single_url of src/openeo_checker.py: each      *)
(* invocation looks whether the output file exists, collects its result   *)
(* rows, and then creates the file with a header or appends to it.        *)

\* Invocations of the checker in a behaviour of SpecCsv, and the rows one
\* invocation of process_csv collects.
MaxChecks == 3
MaxRows == 2

\* writer.writeheader(): the line of the field names.
HeaderLine == [kind |-> "header", run |-> 0, n |-> 0]

\* writer.writerow(result): the n-th result of invocation run.
RowLine(run, n) == [kind |-> "row", run |-> run, n |-> n]

\* results, the list of the count entries invocation run collected.
ResultRows(run, count) == [n \in 1..count |-> RowLine(run, n)]

\* Mode with the file always opened for writing.
ModeAlwaysWrite(file_exists) == "w"

\* mode = 'a' if file_exists else 'w'
Mode(file_exists) == IF file_exists THEN "a" ELSE "w"

\* open(output_file, mode): 'w' truncates, 'a' keeps the lines there are.
Opened(f, mode) == IF mode = "w" \/ f = None THEN << >> ELSE Val(f)

\* The with block: the header if the file did not exist, then the rows.
WriteRows(f, file_exists, rows) ==
    Some(Opened(f, Mode(file_exists))
           \o (IF file_exists THEN << >> ELSE << HeaderLine >>)
           \o rows)

IdleCheck == [phase |-> "idle", function |-> "none", file_exists |-> FALSE, rows |-> << >>]

InitCsv ==
    /\ outfile = None
    /\ chk = [i \in 1..MaxChecks |-> IdleCheck]
    /\ overlapped = FALSE

(* ---------------- run_task ---------------- *)

Init ==
    /\ pc = "entry"
    /\ now = 0
    /\ results = None
    /\ job_start_time = 0
    /\ poll_interval = 0
    /\ last_status = "submitted"
    /\ status_times = << >>
    /\ check_count = 0
    /\ saved = << >>
    /\ pollTime \in PollTimes
    /\ prevAnswer = "none"
    /\ raisedBy = "none"
    /\ calls = NoCalls
    /\ pollErrors = 0
    /\ sleepCount = 0
    /\ lastSleep = 0
    /\ stillLogs = 0
    /\ startTook = 0
    /\ describeRaised = FALSE
    /\ observed = {}
    /\ firstSeen = << >>
    /\ regressed = FALSE
    /\ InitFiles
    /\ InitCsv

\* os.makedirs / shutil.copyfile raise: nothing catches the exception.
PrepareRaise ==
    /\ pc = "entry"
    /\ pc' = "raised"
    /\ raisedBy' = "makedirs"
    /\ UNCHANGED << now, results, job_start_time, loopVars, saved, envVars,
                    calls, pollErrors, sleepVars, stillLogs, startTook, describeRaised,
                    seenVars, fileVars, csvVars >>

\* Output directory created, scenario copied, results initialised.
PrepareOk ==
    /\ pc = "entry"
    /\ results' = InitialResults(now)
    /\ pc' = "load"
    /\ UNCHANGED << now, job_start_time, loopVars, saved, envVars, raisedBy,
                    calls, pollErrors, sleepVars, stillLogs, startTook, describeRaised,
                    seenVars, fileVars, csvVars >>

\* EarlyReturn with the return statement after _save_results left out.
EarlyReturnNoReturn(prefix, e) ==
    /\ results' = [results EXCEPT !.error = Some(<< prefix, e >>)]
    /\ \E writeOk \in BOOLEAN : saved' = SaveResults(results', writeOk)
    /\ pc' = "submit"

\* An early exit: the error is recorded, the record saved and returned.
EarlyReturn(prefix, e) ==
    /\ results' = [results EXCEPT !.error = Some(<< prefix, e >>)]
    /\ \E writeOk \in BOOLEAN : saved' = SaveResults(results', writeOk)
    /\ pc' = "returned"

\* json.load of the scenario file raises.
LoadRaise ==
    /\ pc = "load"
    /\ EarlyReturn("Failed to load process graph: ", "JSONDecodeError")
    /\ raisedBy' = "load"
    /\ UNCHANGED << now, job_start_time, loopVars, envVars,
                    calls, pollErrors, sleepVars, stillLogs, startTook, describeRaised,
                    seenVars, fileVars, csvVars >>

LoadOk ==
    /\ pc = "load"
    /\ pc' = "connect"
    /\ UNCHANGED << now, results, job_start_time, loopVars, saved, envVars,
                    raisedBy, calls, pollErrors, sleepVars, stillLogs, startTook, describeRaised,
                    seenVars, fileVars, csvVars >>

\* openeo.connect raises, or authenticate_basic raises for the Earth Engine
\* URL: both are caught by the outer handler.
ConnectRaise ==
    /\ pc = "connect"
    /\ \E earthEngine \in BOOLEAN, step \in {"connect", "authenticate_basic"} :
          /\ step = "authenticate_basic" => earthEngine
          /\ EarlyReturn("Failed to connect to backend: ", "ConnectionError")
    /\ raisedBy' = "connect"
    /\ UNCHANGED << now, job_start_time, loopVars, envVars,
                    calls, pollErrors, sleepVars, stillLogs, startTook, describeRaised,
                    seenVars, fileVars, csvVars >>

\* authenticate_oidc raises (any URL but the Earth Engine one).
AuthRaise ==
    /\ pc = "connect"
    /\ EarlyReturn("Authentication failed: ", "AuthError")
    /\ raisedBy' = "auth"
    /\ UNCHANGED << now, job_start_time, loopVars, envVars,
                    calls, pollErrors, sleepVars, stillLogs, startTook, describeRaised,
                    seenVars, fileVars, csvVars >>

ConnectOk ==
    /\ pc = "connect"
    /\ pc' = "submit"
    /\ UNCHANGED << now, results, job_start_time, loopVars, saved, envVars,
                    raisedBy, calls, pollErrors, sleepVars, stillLogs, startTook, describeRaised,
                    seenVars, fileVars, csvVars >>

\* HandleException that starts again from a record without timings.
HandleExceptionDropsTimings(r, e) ==
    [r EXCEPT !.status = "failed", !.error = Some(<< "", e >>),
              !.job_execution_time = None, !.queue_time = None, !.processing_time = None]

\* HandleException with the assignment of results["error"] left out.
HandleExceptionNoError(r, e) == [r EXCEPT !.status = "failed"]

\* except Exception as e: of the batch-job block.
HandleException(r, e) == [r EXCEPT !.status = "failed", !.error = Some(<< "", e >>)]

\* JobCreated with the job id kept in the local variable only.
JobCreatedNotStored(r, id, d) == [r EXCEPT !.submit_time = Some(d)]

\* connection.create_job returned a job after d ticks.
JobCreated(r, id, d) == [r EXCEPT !.job_id = Some(id), !.submit_time = Some(d)]

SubmitRaise ==
    /\ pc = "submit"
    /\ \E d \in SubmitTimes : now' = now + d
    /\ calls' = Called("create_job")
    /\ results' = HandleException(results, "SubmissionError")
    /\ raisedBy' = "create_job"
    /\ pc' = "finally"
    /\ UNCHANGED << job_start_time, loopVars, saved, envVars,
                    pollErrors, sleepVars, stillLogs, startTook, describeRaised,
                    seenVars, fileVars, csvVars >>

SubmitOk ==
    /\ pc = "submit"
    /\ \E d \in SubmitTimes :
          /\ now' = now + d
          /\ results' = [JobCreated(results, "job-1", d) EXCEPT !.start_job_time = Some(now + d)]
          /\ job_start_time' = now + d
    /\ calls' = Called("create_job")
    /\ pc' = "start"
    /\ UNCHANGED << loopVars, saved, envVars, raisedBy,
                    pollErrors, sleepVars, stillLogs, startTook, describeRaised,
                    seenVars, fileVars, csvVars >>

\* StartRaise with the exception of job.start() swallowed: monitoring begins.
StartRaiseIgnored ==
    /\ pc = "start"
    /\ \E d \in StartTimes : now' = now + d /\ startTook' = d
    /\ calls' = Called("start")
    /\ raisedBy' = "start"
    /\ poll_interval' = initial_poll_interval
    /\ last_status' = "submitted"
    /\ status_times' = << [status |-> "submitted", time |-> job_start_time] >>
    /\ check_count' = 0
    /\ pc' = "loop"
    /\ UNCHANGED << results, job_start_time, saved, envVars,
                    pollErrors, sleepVars, stillLogs, describeRaised,
                    seenVars, fileVars, csvVars >>

StartRaise ==
    /\ pc = "start"
    /\ \E d \in StartTimes : now' = now + d /\ startTook' = d
    /\ calls' = Called("start")
    /\ results' = HandleException(results, "StartError")
    /\ raisedBy' = "start"
    /\ pc' = "finally"
    /\ UNCHANGED << job_start_time, loopVars, saved, envVars,
                    pollErrors, sleepVars, stillLogs, describeRaised,
                    seenVars, fileVars, csvVars >>

\* job.start() returned: the monitoring state is set up.  job_start_datetime
\* is read at the same instant as job_start_time.
StartOk ==
    /\ pc = "start"
    /\ \E d \in StartTimes : now' = now + d /\ startTook' = d
    /\ calls' = Called("start")
    /\ poll_interval' = initial_poll_interval
    /\ last_status' = "submitted"
    /\ status_times' = << [status |-> "submitted", time |-> job_start_time] >>
    /\ check_count' = 0
    /\ pc' = "loop"
    /\ UNCHANGED << results, job_start_time, saved, envVars, raisedBy,
                    pollErrors, sleepVars, stillLogs, describeRaised,
                    seenVars, fileVars, csvVars >>

(* ---------------- the polling loop ---------------- *)

\* TimedOut with a deadline that never expires.
TimedOutNever(t) == FALSE

\* time.time() - job_start_time > timeout
TimedOut(t) == t - job_start_time > timeout

\* NextPollInterval without the cap max_poll_interval.
NextPollIntervalUncapped(p) == (3 * p) \div 2

\* min(poll_interval * 1.5, max_poll_interval)
NextPollInterval(p) ==
    IF 3 * p >= 2 * max_poll_interval THEN max_poll_interval ELSE (3 * p) \div 2

\* What the backend may answer to the next job.status() call.
Answers ==
    IF calls["status"] < MaxVaried
    THEN BackendStatuses \cup {"raise"}
    ELSE {prevAnswer}

\* The timeout check at the top of the loop fires.
LoopTimeout ==
    /\ pc = "loop"
    /\ TimedOut(now)
    /\ results' = [results EXCEPT !.error = Some(<< "Job timed out after ", "3600 seconds" >>)]
    /\ pc' = "timing"
    /\ UNCHANGED << now, job_start_time, loopVars, saved, envVars, raisedBy,
                    calls, pollErrors, sleepVars, stillLogs, startTook, describeRaised,
                    seenVars, fileVars, csvVars >>

\* PollErrorBreaks with the timeout test left out: any failed poll breaks.
PollErrorAlwaysBreaks(t) == TRUE

\* Where a failed poll at time t leaves the loop (TRUE) or sleeps (FALSE).
PollErrorBreaks(t) == TimedOut(t)

\* job.status() raises: the handler breaks after the timeout and sleeps
\* for the unchanged poll_interval before it.
PollRaise ==
    /\ pc = "loop"
    /\ ~TimedOut(now)
    /\ "raise" \in Answers
    /\ prevAnswer' = "raise"
    /\ calls' = Called("status")
    /\ pollErrors' = pollErrors + 1
    /\ IF PollErrorBreaks(now + pollTime)
       THEN /\ results' = [results EXCEPT
                   !.error = Some(<< "Job status checking failed: ", "ConnectionError" >>)]
            /\ now' = now + pollTime
            /\ UNCHANGED sleepVars
            /\ pc' = "timing"
       ELSE /\ results' = results
            /\ now' = now + pollTime + poll_interval
            /\ sleepCount' = sleepCount + 1
            /\ lastSleep' = poll_interval
            /\ pc' = "loop"
    /\ UNCHANGED << job_start_time, loopVars, saved, pollTime, raisedBy,
                    stillLogs, startTook, describeRaised,
                    seenVars, fileVars, csvVars >>

\* status_times after an answer observed at current_time.
RecordStatus(d, current_status, current_time) ==
    IF current_status # last_status
    THEN SetItem(d, current_status, current_time)
    ELSE d

\* StillLogged with the failed polls counted as well.
StillLoggedCountsFailures(current_status, count) ==
    current_status = last_status /\ (count + pollErrors) % StillLogEvery = 0

\* Lines 350-354: the "still <status>" line is logged when the status did not
\* change and check_count is a multiple of 12.
StillLogged(current_status, count) ==
    current_status = last_status /\ count % StillLogEvery = 0

\* IsComplete that takes only finished as the end of the job.
IsCompleteOnlyFinished(current_status) == current_status = "finished"

\* The job is complete: the loop breaks.
IsComplete(current_status) == current_status \in TerminalStatuses

\* job.status() returns current_status; current_time is read before the call.
PollStatus ==
    /\ pc = "loop"
    /\ ~TimedOut(now)
    /\ \E answer \in Answers \ {"raise"} :
         LET current_status == answer
             current_time == now
         IN
          /\ prevAnswer' = answer
          /\ observed' = observed \cup {answer}
          /\ firstSeen' = IF HasKey(firstSeen, answer) THEN firstSeen
                          ELSE Append(firstSeen, [status |-> answer, time |-> current_time])
          /\ regressed' = (regressed \/ (HasKey(firstSeen, answer) /\ answer # last_status))
          /\ calls' = Called("status")
          /\ check_count' = check_count + 1
          /\ results' = [results EXCEPT !.job_status = Some(current_status)]
          /\ status_times' = RecordStatus(status_times, current_status, current_time)
          /\ last_status' = current_status
          /\ stillLogs' = IF StillLogged(current_status, check_count')
                          THEN stillLogs + 1 ELSE stillLogs
          /\ IF IsComplete(current_status)
             THEN /\ now' = now + pollTime
                  /\ poll_interval' = poll_interval
                  /\ UNCHANGED sleepVars
                  /\ pc' = "timing"
             ELSE /\ poll_interval' = NextPollInterval(poll_interval)
                  /\ now' = now + pollTime + poll_interval'
                  /\ sleepCount' = sleepCount + 1
                  /\ lastSleep' = poll_interval'
                  /\ pc' = "loop"
    /\ UNCHANGED << job_start_time, saved, pollTime, raisedBy, pollErrors, startTook, describeRaised,
                    fileVars, csvVars >>

(* ---------------- after the loop ---------------- *)

\* RecordTimings that counts the processing time from the time queued was
\* returned.
RecordTimingsProcessingFromQueued(r, d, t) ==
    [r EXCEPT
        !.job_execution_time = Some(t - job_start_time),
        !.job_status_history = d,
        !.queue_time =
            IF HasKey(d, "queued") /\ HasKey(d, "running")
            THEN Some(Lookup(d, "running") - Lookup(d, "queued")) ELSE @,
        !.processing_time =
            IF HasKey(d, "running") /\ HasKey(d, "finished")
            THEN Some(Lookup(d, "finished")
                      - (IF HasKey(d, "queued") THEN Lookup(d, "queued") ELSE Lookup(d, "running")))
            ELSE @]

\* RecordTimings that takes a missing status as observed at job start.
RecordTimingsDefaulted(r, d, t) ==
    [r EXCEPT
        !.job_execution_time = Some(t - job_start_time),
        !.job_status_history = d,
        !.queue_time =
            IF HasKey(d, "running")
            THEN Some(Lookup(d, "running")
                      - (IF HasKey(d, "queued") THEN Lookup(d, "queued") ELSE job_start_time))
            ELSE @,
        !.processing_time =
            IF HasKey(d, "running") /\ HasKey(d, "finished")
            THEN Some(Lookup(d, "finished") - Lookup(d, "running")) ELSE @]

\* Lines 371-386: execution time, status history, queue and processing time.
RecordTimings(r, d, t) ==
    [r EXCEPT
        !.job_execution_time = Some(t - job_start_time),
        !.job_status_history = d,
        !.queue_time =
            IF HasKey(d, "queued") /\ HasKey(d, "running")
            THEN Some(Lookup(d, "running") - Lookup(d, "queued")) ELSE @,
        !.processing_time =
            IF HasKey(d, "running") /\ HasKey(d, "finished")
            THEN Some(Lookup(d, "finished") - Lookup(d, "running")) ELSE @]

\* JobFinished testing the loop's exit condition instead of "finished".
JobFinishedAnyTerminal(r) == IsSome(r.job_status) /\ Val(r.job_status) \in TerminalStatuses

\* if results["job_status"] == "finished"
JobFinished(r) == r.job_status = Some("finished")

Timing ==
    /\ pc = "timing"
    /\ results' = RecordTimings(results, status_times, now)
    /\ pc' = IF JobFinished(results) THEN "download" ELSE "jobfailed"
    /\ UNCHANGED << now, job_start_time, loopVars, saved, envVars, raisedBy,
                    calls, pollErrors, sleepVars, stillLogs, startTook, describeRaised,
                    seenVars, fileVars, csvVars >>

\* Lines 418-419: the download completed after d ticks.
Downloaded(r, d) == [r EXCEPT !.download_time = Some(d), !.status = "success"]

DownloadOk ==
    /\ pc = "download"
    /\ \E d \in DownloadTimes :
          /\ now' = now + d
          /\ results' = Downloaded(results, d)
    /\ calls' = Called("download")
    /\ pc' = "finally"
    /\ UNCHANGED << job_start_time, loopVars, saved, envVars, raisedBy,
                    pollErrors, sleepVars, stillLogs, startTook, describeRaised,
                    seenVars, fileVars, csvVars >>

\* DownloadRaise with the exception leaving run_task.
DownloadRaisePropagates ==
    /\ pc = "download"
    /\ \E d \in DownloadTimes : now' = now + d
    /\ calls' = Called("download")
    /\ raisedBy' = "download"
    /\ pc' = "raised"
    /\ UNCHANGED << results, job_start_time, loopVars, saved, envVars,
                    pollErrors, sleepVars, stillLogs, startTook, describeRaised,
                    seenVars, fileVars, csvVars >>

\* DownloadRaise with the download tried again after it raised.
DownloadRaiseRetries ==
    /\ pc = "download"
    /\ \E d \in DownloadTimes : now' = now + d
    /\ calls' = Called("download")
    /\ raisedBy' = "download"
    /\ pc' = "download"
    /\ UNCHANGED << results, job_start_time, loopVars, saved, envVars,
                    pollErrors, sleepVars, stillLogs, startTook, describeRaised,
                    seenVars, fileVars, csvVars >>

\* get_results, get_metadata or download_files raises.
DownloadRaise ==
    /\ pc = "download"
    /\ \E d \in DownloadTimes : now' = now + d
    /\ calls' = Called("download")
    /\ results' = HandleException(results, "DownloadError")
    /\ raisedBy' = "download"
    /\ pc' = "finally"
    /\ UNCHANGED << job_start_time, loopVars, saved, envVars,
                    pollErrors, sleepVars, stillLogs, startTook, describeRaised,
                    seenVars, fileVars, csvVars >>

\* Lines 429-430: the job did not finish.
JobEnded(r) ==
    [r EXCEPT !.status = "failed",
              !.error = Some(<< "Job ended with status: ", StatusText(r.job_status) >>)]

\* The else branch with job.describe_job() returning the job details.
DescribeOk ==
    /\ pc = "jobfailed"
    /\ results' = [JobEnded(results) EXCEPT !.job_details = Some("job_info")]
    /\ calls' = Called("describe_job")
    /\ pc' = "finally"
    /\ UNCHANGED << now, job_start_time, loopVars, saved, envVars, raisedBy,
                    pollErrors, sleepVars, stillLogs, startTook, describeRaised,
                    seenVars, fileVars, csvVars >>

\* DescribeRaise with the exception reaching the handler of the batch-job
\* block.
DescribeRaiseEscalates ==
    /\ pc = "jobfailed"
    /\ results' = HandleException(JobEnded(results), "DescribeError")
    /\ calls' = Called("describe_job")
    /\ describeRaised' = TRUE
    /\ pc' = "finally"
    /\ UNCHANGED << now, job_start_time, loopVars, saved, envVars, raisedBy,
                    pollErrors, sleepVars, stillLogs, startTook,
                    seenVars, fileVars, csvVars >>

\* The else branch with job.describe_job() raising: a warning is logged.
DescribeRaise ==
    /\ pc = "jobfailed"
    /\ results' = JobEnded(results)
    /\ calls' = Called("describe_job")
    /\ describeRaised' = TRUE
    /\ pc' = "finally"
    /\ UNCHANGED << now, job_start_time, loopVars, saved, envVars, raisedBy,
                    pollErrors, sleepVars, stillLogs, startTook,
                    seenVars, fileVars, csvVars >>

\* Finally that measures the total time from the start of the job.
FinallyFromJobStart ==
    /\ pc = "finally"
    /\ results' = [results EXCEPT !.total_time = Some(now - job_start_time)]
    /\ \E writeOk \in BOOLEAN : saved' = SaveResults(results', writeOk)
    /\ pc' = "returned"
    /\ UNCHANGED << now, job_start_time, loopVars, envVars, raisedBy,
                    calls, pollErrors, sleepVars, stillLogs, startTook, describeRaised,
                    seenVars, fileVars, csvVars >>

\* Finally with a failed write of results.json leaving run_task as an
\* exception.
FinallyWriteFailureEscalates ==
    /\ pc = "finally"
    /\ results' = [results EXCEPT !.total_time = Some(now - results.start_time)]
    /\ \E writeOk \in BOOLEAN :
          /\ saved' = SaveResults(results', writeOk)
          /\ pc' = IF writeOk THEN "returned" ELSE "raised"
    /\ UNCHANGED << now, job_start_time, loopVars, envVars, raisedBy,
                    calls, pollErrors, sleepVars, stillLogs, startTook, describeRaised,
                    seenVars, fileVars, csvVars >>

\* Finally with the call of _save_results left out.
FinallyNoSave ==
    /\ pc = "finally"
    /\ results' = [results EXCEPT !.total_time = Some(now - results.start_time)]
    /\ pc' = "returned"
    /\ UNCHANGED << now, job_start_time, loopVars, saved, envVars, raisedBy,
                    calls, pollErrors, sleepVars, stillLogs, startTook, describeRaised,
                    seenVars, fileVars, csvVars >>

\* finally: total time, save, return results.
Finally ==
    /\ pc = "finally"
    /\ results' = [results EXCEPT !.total_time = Some(now - results.start_time)]
    /\ \E writeOk \in BOOLEAN : saved' = SaveResults(results', writeOk)
    /\ pc' = "returned"
    /\ UNCHANGED << now, job_start_time, loopVars, envVars, raisedBy,
                    calls, pollErrors, sleepVars, stillLogs, startTook, describeRaised,
                    seenVars, fileVars, csvVars >>

Next ==
    \/ PrepareRaise \/ PrepareOk
    \/ LoadRaise \/ LoadOk
    \/ ConnectRaise \/ AuthRaise \/ ConnectOk
    \/ SubmitRaise \/ SubmitOk
    \/ StartRaise \/ StartOk
    \/ LoopTimeout \/ PollRaise \/ PollStatus
    \/ Timing
    \/ DownloadOk \/ DownloadRaise
    \/ DescribeOk \/ DescribeRaise
    \/ Finally

Spec == Init /\ [][Next]_vars

\* run_task keeps running: a statement that can be executed is executed, a
\* backend call returns or raises, a sleep ends.
FairSpec == Spec /\ WF_vars(Next)

(* ---------------- invocations and their files ---------------- *)

runVars == << pc, results, job_start_time, poll_interval, last_status,
              status_times, check_count, saved, pollTime, prevAnswer, raisedBy,
              calls, pollErrors, sleepCount, lastSleep, stillLogs, startTook,
              describeRaised, observed, firstSeen, regressed >>

InitRuns ==
    /\ Init
    /\ pollTime = 0

\* Invocation i has not started and is the next one to start.
NextToStart(i) ==
    /\ inv[i].phase = "idle"
    /\ \A j \in 1..(i - 1) : inv[j].phase # "idle"

\* Time passes before an invocation starts.
FileTick ==
    /\ ticks < MaxTicks
    /\ \E i \in 1..MaxRuns : inv[i].phase = "idle"
    /\ \E step \in TickSteps : now' = now + step
    /\ ticks' = ticks + 1
    /\ UNCHANGED << runVars, fs, inv, csvVars >>

\* Lines 216-257 of invocation i: the directory name, makedirs, the copy of
\* the scenario, start_time.
FilePrepare(i) ==
    /\ NextToStart(i)
    /\ \E hostname \in Hosts, scenario_path \in ScenarioPaths,
          given \in {None} \cup {Some(d) : d \in GivenDirectories} :
         LET output_directory ==
                 OutputDirectory(given, hostname, ScenarioName(scenario_path), now)
         IN
          /\ fs' = WriteFile(MakeDirs(fs, output_directory),
                             ProcessGraphFile(output_directory), scenario_path)
          /\ inv' = [inv EXCEPT ![i] =
                        [ phase |-> "prepared", hostname |-> hostname,
                          scenario_path |-> scenario_path, given |-> given,
                          dir |-> output_directory, start_time |-> now ]]
    /\ UNCHANGED << runVars, now, ticks, csvVars >>

\* Lines 216-234 of invocation i with shutil.copyfile raising after makedirs:
\* the exception leaves run_task.
FilePrepareRaise(i) ==
    /\ NextToStart(i)
    /\ \E hostname \in Hosts, scenario_path \in ScenarioPaths,
          given \in {None} \cup {Some(d) : d \in GivenDirectories} :
         LET output_directory ==
                 OutputDirectory(given, hostname, ScenarioName(scenario_path), now)
         IN
          /\ fs' = MakeDirs(fs, output_directory)
          /\ inv' = [inv EXCEPT ![i] =
                        [ phase |-> "done", hostname |-> hostname,
                          scenario_path |-> scenario_path, given |-> given,
                          dir |-> output_directory, start_time |-> now ]]
    /\ UNCHANGED << runVars, now, ticks, csvVars >>

\* Line 414 of invocation i: the result files are downloaded into the output
\* directory.
FileDownload(i) ==
    /\ inv[i].phase = "prepared"
    /\ fs' = WriteFile(fs, << inv[i].dir, "result.tif" >>,
                       ScenarioName(inv[i].scenario_path))
    /\ inv' = [inv EXCEPT ![i].phase = "downloaded"]
    /\ UNCHANGED << runVars, now, ticks, csvVars >>

\* _save_results of invocation i, at the end of run_task: results.json is
\* opened for writing and the record dumped; open may fail (nothing changes)
\* and json.dump may fail (the file is left incomplete).
FileSave(i) ==
    /\ inv[i].phase \in {"prepared", "downloaded"}
    /\ \E status \in {"success", "failed"}, outcome \in {"written", "open failed", "dump failed"} :
          /\ status = "success" => inv[i].phase = "downloaded"
          /\ fs' = IF outcome = "open failed" THEN fs
                   ELSE WriteFile(fs, ResultsFile(inv[i].dir),
                                  ResultsContent(i, status, outcome = "written"))
    /\ inv' = [inv EXCEPT ![i].phase = "done"]
    /\ UNCHANGED << runVars, now, ticks, csvVars >>

NextFiles ==
    \/ FileTick
    \/ \E i \in 1..MaxRuns : FilePrepare(i)
    \/ \E i \in 1..MaxRuns : FilePrepareRaise(i)
    \/ \E i \in 1..MaxRuns : FileDownload(i)
    \/ \E i \in 1..MaxRuns : FileSave(i)

SpecFiles == InitRuns /\ [][NextFiles]_vars

(* ---------------- invocations of the checker ---------------- *)

\* Invocation i has not started and is the next one to start.
NextCheck(i) ==
    /\ chk[i].phase = "idle"
    /\ \A j \in 1..(i - 1) : chk[j].phase # "idle"

\* file_exists = os.path.exists(output_file), at the start of either function.
CheckStart(i) ==
    /\ NextCheck(i)
    /\ \E function \in {"process_csv", "process_single_url"} :
          chk' = [chk EXCEPT ![i] =
                     [ phase |-> "checking", function |-> function,
                       file_exists |-> IsSome(outfile), rows |-> << >> ]]
    /\ overlapped' = (overlapped \/ \E j \in 1..MaxChecks : chk[j].phase = "checking")
    /\ UNCHANGED << runVars, now, fileVars, outfile >>

\* The input file is missing or has no URL column, or the output file cannot
\* be opened: sys.exit(1), nothing is written.
CheckExit(i) ==
    /\ chk[i].phase = "checking"
    /\ chk' = [chk EXCEPT ![i].phase = "done"]
    /\ UNCHANGED << runVars, now, fileVars, outfile, overlapped >>

\* The results are written: one row for process_single_url, one row for each
\* URL of the input file for process_csv.
CheckWrite(i) ==
    /\ chk[i].phase = "checking"
    /\ \E count \in (IF chk[i].function = "process_single_url" THEN {1} ELSE 0..MaxRows) :
          /\ outfile' = WriteRows(outfile, chk[i].file_exists, ResultRows(i, count))
          /\ chk' = [chk EXCEPT ![i].phase = "done", ![i].rows = ResultRows(i, count)]
    /\ UNCHANGED << runVars, now, fileVars, overlapped >>

NextCsv ==
    \/ \E i \in 1..MaxChecks : CheckStart(i)
    \/ \E i \in 1..MaxChecks : CheckExit(i)
    \/ \E i \in 1..MaxChecks : CheckWrite(i)

SpecCsv == InitRuns /\ [][NextCsv]_vars

(* ---------------- properties ---------------- *)

Returned == pc = "returned"
Raised == pc = "raised"

\* The records handed to _save_results.
SavedRecords == { saved[i].record : i \in 1..Len(saved) }

\* The loop was left without a terminal status: the deadline had expired.
DeadlineExit(r) ==
    /\ IsSome(r.job_execution_time)
    /\ ~(IsSome(r.job_status) /\ Val(r.job_status) \in TerminalStatuses)

TimeoutError == Some(<< "Job timed out after ", "3600 seconds" >>)

\* C1: once the run record is initialised, _save_results is called exactly
\* once before run_task returns, on every exit route: it has not been called
\* while run_task is running, and it has been called once, not twice, when
\* run_task has returned.
C1_SavedExactlyOnce ==
    /\ Len(saved) <= 1
    /\ (results # None /\ ~Returned) => Len(saved) = 0
    /\ (results # None /\ (Returned \/ Raised)) => Len(saved) = 1

\* C1 witness: run_task returned after the polling loop timed out, with one
\* saved record.
C1_Witness ==
    /\ Returned
    /\ Len(saved) = 1
    /\ DeadlineExit(results)
    /\ sleepCount > 0

C3_NoExceptionPropagates ==
    /\ Raised => (raisedBy = "makedirs" /\ pollErrors = 0 /\ ~describeRaised)
    /\ raisedBy \in {"create_job", "start", "download"} => pc \in {"finally", "returned"}
    /\ (Returned /\ raisedBy \in {"create_job", "start", "download"})
          => (results.status = "failed" /\ IsSome(results.error))
    /\ (Returned /\ describeRaised) => (results.status = "failed" /\ IsSome(results.error))

\* C3 witness: polls raised, then the download raised, and run_task returned.
C3_Witness == Returned /\ raisedBy = "download" /\ pollErrors > 0

\* C4: every saved record has status success or failed, and success exactly
\* when the last polled status was finished and the download call completed.
C4_StatusSuccessIff ==
    \A r \in SavedRecords :
        /\ r.status \in {"success", "failed"}
        /\ r.status = "success"
              <=> (/\ r.job_status = Some("finished")
                   /\ calls["download"] = 1
                   /\ raisedBy # "download")

\* C4 witness: a record with status success was saved.
C4_Witness == \E r \in SavedRecords : r.status = "success" /\ r.job_status = Some("finished")

\* C5: in every saved record the error is set exactly when status is failed.
C5_ErrorIffFailed ==
    \A r \in SavedRecords : IsSome(r.error) <=> r.status = "failed"

\* C5 witness: a success record saved after a poll had raised and after the
\* job had been seen in a non-terminal status.
C5_Witness ==
    \E r \in SavedRecords : r.status = "success" /\ r.error = None /\ pollErrors > 0

\* C6: a saved record has no job_id only when it is failed and the run ended
\* before create_job returned; once create_job returned, the saved record
\* carries the job id.
C6_JobIdKept ==
    \A r \in SavedRecords :
        /\ r.job_id = None
              => (r.status = "failed" /\ raisedBy \in {"load", "connect", "auth", "create_job"})
        /\ (calls["create_job"] = 1 /\ raisedBy # "create_job") => r.job_id = Some("job-1")

\* C6 witness: the download raised after create_job had returned, and the
\* saved record carries the job id.
C6_Witness ==
    \E r \in SavedRecords : raisedBy = "download" /\ r.job_id = Some("job-1")

\* C7: after create_job or start raised, no status poll, sleep, download or
\* describe_job happens, and the returned record is saved once with status
\* failed and an error, without job_id after create_job raised, with job_id
\* and submit_time after start raised.
C7_ShortCircuit ==
    raisedBy \in {"create_job", "start"} =>
        /\ calls["status"] = 0 /\ calls["download"] = 0 /\ calls["describe_job"] = 0
        /\ sleepCount = 0
        /\ pc \in {"finally", "returned"}
        /\ Returned =>
              /\ Len(saved) = 1
              /\ saved[1].record = results
              /\ results.status = "failed" /\ IsSome(results.error)
              /\ raisedBy = "create_job" => (results.job_id = None /\ results.submit_time = None)
              /\ raisedBy = "start" => (results.job_id = Some("job-1") /\ IsSome(results.submit_time))

\* C7 witness: start raised and run_task returned.
C7_Witness == Returned /\ raisedBy = "start" /\ calls["start"] = 1

\* C8 (state part): the loop is left only with a terminal status or after
\* the timeout.
LoopLeftOnlyByTerminalOrTimeout ==
    pc = "timing" =>
        \/ IsSome(results.job_status) /\ Val(results.job_status) \in TerminalStatuses
        \/ TimedOut(now)

\* C8 (step part): a poll that raises either sleeps and stays in the loop, or
\* leaves the loop with the timeout exceeded.
FailedPollSleepsOrTimedOut ==
    pollErrors' = pollErrors + 1 =>
        \/ pc' = "loop" /\ sleepCount' = sleepCount + 1 /\ lastSleep' = poll_interval
        \/ pc' = "timing" /\ TimedOut(now')

\* C8: a raising status poll never ends the loop by itself: the loop sleeps
\* and polls again, and it is left only when a terminal status was observed
\* or the elapsed time exceeds the timeout.
C8_PollErrorsRetried ==
    [](LoopLeftOnlyByTerminalOrTimeout) /\ [][FailedPollSleepsOrTimedOut]_vars

\* C8 witness: ten polls in a row raised and the loop is still running.
C8_Witness == pc = "loop" /\ pollErrors >= 10 /\ check_count = 0 /\ sleepCount = pollErrors

\* C9: when job.start() and the polls take no time, the loop runs and exits
\* no later than timeout + max_poll_interval after job_start_time.
C9_LoopExitBound ==
    (pc \in {"loop", "timing"} /\ pollTime = 0 /\ startTook = 0)
        => now - job_start_time <= timeout + max_poll_interval

\* C9 witness: a backend that never reported a terminal status, with raising
\* and answering polls, left the loop after the timeout.
C9_Witness ==
    /\ pc = "timing" /\ pollTime = 0 /\ startTook = 0
    /\ TimedOut(now)
    /\ pollErrors > 0 /\ check_count > 0

\* C10: a record saved after the loop was left by the deadline has status
\* failed and the timeout error as its error.
C10_TimeoutErrorSaved ==
    \A r \in SavedRecords :
        DeadlineExit(r) => (r.status = "failed" /\ r.error = TimeoutError)

\* The history has each status once, starts with submitted and has
\* non-decreasing timestamps in insertion order.
HistoryOrdered(h) ==
    /\ \A i, j \in 1..Len(h) : h[i].status = h[j].status => i = j
    /\ Len(h) > 0 => h[1].status = "submitted"
    /\ \A i, j \in 1..Len(h) : i < j => h[i].time <= h[j].time

\* C11: in every saved record job_status_history has each status name at
\* most once, submitted first, and non-decreasing timestamps in insertion
\* order.
C11_HistoryOrdered == \A r \in SavedRecords : HistoryOrdered(r.job_status_history)

Durations(r) ==
    { r.submit_time, r.job_execution_time, r.download_time,
      r.queue_time, r.processing_time, r.total_time }

\* C12: every duration of a saved record that is present is non-negative.
C12_DurationsNonNegative ==
    \A r \in SavedRecords : \A d \in Durations(r) : IsSome(d) => Val(d) >= 0

\* C13: in every saved record queue_time is present exactly when queued and
\* running were both returned by a poll, and processing_time exactly when
\* running and finished were; otherwise they are None (not zero).
C13_PhaseTimesIffObserved ==
    \A r \in SavedRecords :
        /\ IsSome(r.queue_time) <=> {"queued", "running"} \subseteq observed
        /\ IsSome(r.processing_time) <=> {"running", "finished"} \subseteq observed
        /\ ~({"queued", "running"} \subseteq observed) => r.queue_time = None
        /\ ~({"running", "finished"} \subseteq observed) => r.processing_time = None

\* C13 witness: running and finished were seen and queued was not:
\* processing_time is present and queue_time is None.
C13_Witness ==
    \E r \in SavedRecords :
        /\ observed = {"running", "finished"}
        /\ r.queue_time = None /\ IsSome(r.processing_time)

\* C14: in every saved record with a total_time, total_time is at least
\* submit_time, job_execution_time and download_time, where present.
C14_TotalTimeLargest ==
    \A r \in SavedRecords :
        IsSome(r.total_time) =>
            \A d \in {r.submit_time, r.job_execution_time, r.download_time} :
                IsSome(d) => Val(r.total_time) >= Val(d)

\* C14 witness: a saved record with non-zero submit, execution and download
\* times.
C14_Witness ==
    \E r \in SavedRecords :
        /\ IsSome(r.total_time)
        /\ IsSome(r.submit_time) /\ Val(r.submit_time) > 0
        /\ IsSome(r.job_execution_time) /\ Val(r.job_execution_time) > 0
        /\ IsSome(r.download_time) /\ Val(r.download_time) > 0

\* C15: every saved record has a total_time.
C15_TotalTimeAlways == \A r \in SavedRecords : IsSome(r.total_time)

\* What a raising download must leave as it was.
Collected(r) ==
    << r.job_id, r.submit_time, r.job_execution_time, r.job_status_history,
       r.queue_time, r.processing_time >>

\* C16 (download step): a raising download sets status failed and the
\* download error, leaves download_time None and keeps what was collected.
DownloadRaiseKeepsTimings ==
    (pc = "download" /\ raisedBy' = "download") =>
        /\ results'.status = "failed"
        /\ results'.error = Some(<< "", "DownloadError" >>)
        /\ results'.download_time = None
        /\ Collected(results') = Collected(results)

\* C16 (save step): after a raising download the saved record has the
\* status, error, download_time and collected values of the record.
SaveAfterDownloadRaiseKeepsTimings ==
    (pc = "finally" /\ raisedBy = "download" /\ pc' = "returned") =>
        /\ Len(saved') = 1
        /\ saved'[1].record.status = results.status
        /\ saved'[1].record.error = results.error
        /\ saved'[1].record.download_time = results.download_time
        /\ Collected(saved'[1].record) = Collected(results)

\* C16 (result): the record saved after a raising download is failed, has no
\* download_time, and has job_id, submit_time and job_execution_time.
DownloadRaiseRecord ==
    (Returned /\ raisedBy = "download") =>
        \A r \in SavedRecords :
            /\ r.status = "failed" /\ r.error = Some(<< "", "DownloadError" >>)
            /\ r.download_time = None
            /\ IsSome(r.job_id) /\ IsSome(r.submit_time) /\ IsSome(r.job_execution_time)
            /\ Len(r.job_status_history) >= 2

\* C16: if the download raises after the job finished, the saved record is
\* failed with the download error and no download_time, and job_id,
\* submit_time, job_execution_time, job_status_history, queue_time and
\* processing_time are as they were before the download was attempted.
C16_DownloadRaiseKeepsTimings ==
    /\ [](DownloadRaiseRecord)
    /\ [][DownloadRaiseKeepsTimings /\ SaveAfterDownloadRaiseKeepsTimings]_vars

\* C16 witness: the download raised after queued, running and finished were
\* seen; the saved record has queue_time and processing_time.
C16_Witness ==
    /\ Returned /\ raisedBy = "download"
    /\ \E r \in SavedRecords : IsSome(r.queue_time) /\ IsSome(r.processing_time)

\* min(5 * 1.5^(k-1), 30) seconds, in ticks
RECURSIVE KthSleep(_)
KthSleep(k) ==
    IF k <= 1 THEN 5 * TicksPerSecond
    ELSE LET grown == (3 * KthSleep(k - 1)) \div 2
         IN IF grown >= 30 * TicksPerSecond THEN 30 * TicksPerSecond ELSE grown

\* C17: while no poll has raised, the k-th sleep lasts min(5 * 1.5^(k-1), 30)
\* seconds (the first 5 s), and no sleep exceeds 30 s.
C17_SleepSchedule ==
    /\ lastSleep <= 30 * TicksPerSecond
    /\ (pollErrors = 0 /\ sleepCount >= 1) => lastSleep = KthSleep(sleepCount)

Started(i) == inv[i].phase # "idle"

ResultsJson(f, d) == IF d \in DOMAIN f THEN f[d]["results.json"] ELSE None

\* C18: two invocations for the same host and scenario, without a given
\* output directory and started at different instants, have distinct output
\* directories.
C18_DistinctDefaultDirectories ==
    \A i, j \in 1..MaxRuns :
        ( /\ i # j /\ Started(i) /\ Started(j)
          /\ inv[i].given = None /\ inv[j].given = None
          /\ inv[i].hostname = inv[j].hostname
          /\ inv[i].scenario_path = inv[j].scenario_path
          /\ inv[i].start_time # inv[j].start_time )
        => inv[i].dir # inv[j].dir

\* C19 as stated: a results.json that exists is never changed by any step of
\* any invocation.
C19_Original ==
    [][\A d \in DOMAIN fs :
          IsSome(ResultsJson(fs, d)) => ResultsJson(fs', d) = ResultsJson(fs, d)]_vars

\* The step is the _save_results of an invocation whose output directory is d.
SavedInto(d) ==
    \E i \in 1..MaxRuns :
        /\ inv[i].dir = d
        /\ inv[i].phase \in {"prepared", "downloaded"}
        /\ inv'[i].phase = "done"

\* C19 amended: results.json of a directory changes only in the one
\* _save_results of an invocation whose output directory it is; an invocation
\* that is done writes nothing more.  A results.json is therefore unchanged
\* by later invocations with another output directory, and overwritten only
\* by an invocation with the same one.
C19_Amended ==
    /\ [][\A d \in DOMAIN fs' :
             ResultsJson(fs', d) # ResultsJson(fs, d) => SavedInto(d)]_vars
    /\ [][\A i \in 1..MaxRuns : inv[i].phase = "done" => inv'[i] = inv[i]]_vars

\* results.json of invocation i is the complete record of invocation i.
OwnResults(i) ==
    /\ inv[i].phase = "done"
    /\ IsSome(ResultsJson(fs, inv[i].dir))
    /\ Val(ResultsJson(fs, inv[i].dir)).complete
    /\ Val(ResultsJson(fs, inv[i].dir)).start_time = inv[i].start_time
    /\ Val(ResultsJson(fs, inv[i].dir)).process_graph = ScenarioName(inv[i].scenario_path)

\* C19 witness: a later invocation with another output directory has saved
\* its record, and the results.json of the earlier one is still its own.
C19_Witness ==
    \E i, j \in 1..MaxRuns :
        /\ inv[i].dir # inv[j].dir
        /\ inv[i].start_time < inv[j].start_time
        /\ OwnResults(i) /\ OwnResults(j)

\* C20: a step of an invocation changes files of its own output directory
\* only: every file of every other directory, in particular results.json and
\* processgraph.json of an earlier run, is unchanged.
C20_OtherDirectoriesUnchanged ==
    [][\A d \in DOMAIN fs :
          fs'[d] # fs[d] => \E i \in 1..MaxRuns : inv'[i] # inv[i] /\ inv'[i].dir = d]_vars

\* C20 witness: the same scenario was run again into a fresh directory, and
\* the earlier directory still has its own results.json and processgraph.json.
C20_Witness ==
    \E i, j \in 1..MaxRuns :
        /\ inv[i].scenario_path = inv[j].scenario_path
        /\ inv[i].dir # inv[j].dir
        /\ inv[i].start_time < inv[j].start_time
        /\ OwnResults(i) /\ inv[j].phase = "done"
        /\ fs[inv[i].dir]["processgraph.json"] = Some(inv[i].scenario_path)
        /\ IsSome(fs[inv[j].dir]["processgraph.json"])

\* C21 (save step): the step that calls _save_results ends run_task by
\* returning, whether the write succeeded or failed; the record returned is
\* the record handed to _save_results, with the status it had before the
\* call and with the error it had (finally block) or the error of the early
\* exit.
SaveStepReturnsRecord ==
    Len(saved') = Len(saved) + 1 =>
        /\ pc' = "returned"
        /\ saved'[Len(saved')].record = results'
        /\ results'.status = results.status
        /\ pc = "finally" => results'.error = results.error
        /\ pc # "finally" => (results.error = None /\ IsSome(results'.error))

\* C21 (result): after a failed write run_task has returned, not raised, and
\* holds the record it tried to write.
FailedWriteReturned ==
    (Len(saved) = 1 /\ ~saved[1].written) =>
        (Returned /\ results = saved[1].record /\ results.status \in {"success", "failed"})

\* C21: a failed write of results.json is never escalated: run_task returns
\* the record, with the status and error a successful write leaves.
C21_WriteFailureNotEscalated ==
    /\ [](FailedWriteReturned)
    /\ [][SaveStepReturnsRecord]_vars

\* C21 witness: the write of a success record failed and run_task returned
\* the record with status success and no error.
C21_Witness ==
    /\ Returned /\ Len(saved) = 1 /\ ~saved[1].written
    /\ results.status = "success" /\ results.error = None

\* The status vocabulary of the specification.
NormalizedVocabulary == {"submitted", "queued", "running", "finished", "error", "canceled"}

\* C22: in every saved record job_status, where present, and every key of
\* job_status_history is one of submitted, queued, running, finished, error,
\* canceled.
C22_StatusesNormalized ==
    \A r \in SavedRecords :
        /\ IsSome(r.job_status) => Val(r.job_status) \in NormalizedVocabulary
        /\ \A k \in 1..Len(r.job_status_history) :
               r.job_status_history[k].status \in NormalizedVocabulary

\* The polls returned queued, then running, then finished, none of them again
\* after another one, and nothing else.
QueuedRunningFinished ==
    /\ Len(firstSeen) = 3
    /\ firstSeen[1].status = "queued"
    /\ firstSeen[2].status = "running"
    /\ firstSeen[3].status = "finished"
    /\ ~regressed

\* C23: when the polls returned queued, then running, then finished and the
\* download completed, the saved record has status success, a download_time,
\* queue_time = first return of running - first return of queued, and
\* processing_time = first return of finished - first return of running.
C23_QueuedRunningFinished ==
    \A r \in SavedRecords :
        (QueuedRunningFinished /\ calls["download"] = 1 /\ raisedBy # "download") =>
            /\ r.status = "success"
            /\ IsSome(r.download_time)
            /\ r.queue_time = Some(firstSeen[2].time - firstSeen[1].time)
            /\ r.processing_time = Some(firstSeen[3].time - firstSeen[2].time)

\* C23 witness: queued, running, finished were returned at three different
\* times, the download took time, and the record was saved.
C23_Witness ==
    \E r \in SavedRecords :
        /\ QueuedRunningFinished /\ calls["download"] = 1 /\ raisedBy # "download"
        /\ firstSeen[1].time < firstSeen[2].time
        /\ firstSeen[2].time < firstSeen[3].time
        /\ IsSome(r.download_time) /\ Val(r.download_time) > 0
        /\ IsSome(r.queue_time) /\ Val(r.queue_time) > 0

\* The header is the first line and no other line is a header.
HeaderOnceFirst(lines) ==
    /\ Len(lines) >= 1
    /\ lines[1] = HeaderLine
    /\ \A k \in 2..Len(lines) : lines[k].kind = "row"

\* The invocation that writes in this step added exactly its rows, after the
\* lines that were there (and after the header, if it created the file).
RowsAppended ==
    \A i \in 1..MaxChecks :
        (chk[i].phase = "checking" /\ outfile' # outfile) =>
            /\ IsSome(outfile')
            /\ chk'[i].phase = "done"
            /\ Val(outfile') =
                  (IF IsSome(outfile) THEN Val(outfile) ELSE << HeaderLine >>) \o chk'[i].rows

\* C24: when the invocations of process_csv and process_single_url on one
\* output file run one after the other, every write keeps the lines of the
\* earlier invocations in their order and adds its rows after them, and the
\* header is the first line and appears once.
C24_HistoryKept ==
    /\ []((~overlapped /\ IsSome(outfile)) => HeaderOnceFirst(Val(outfile)))
    /\ [][~overlapped' => RowsAppended]_vars

\* C24 witness: three invocations ran one after the other, of both functions,
\* and each wrote rows.
C24_Witness ==
    /\ ~overlapped
    /\ \A i \in 1..3 : chk[i].phase = "done" /\ Len(chk[i].rows) >= 1
    /\ \E i, j \in 1..3 : chk[i].function = "process_csv" /\ chk[j].function = "process_single_url"
    /\ IsSome(outfile) /\ Len(Val(outfile)) >= 5

\* C25: a status that has a timestamp in status_times keeps the time of its
\* first return by a poll, whatever is returned later.
C25_FirstObservationKept ==
    \A k \in 1..Len(firstSeen) :
        HasKey(status_times, firstSeen[k].status)
            => Lookup(status_times, firstSeen[k].status) = firstSeen[k].time

\* A poll of this run has returned finished, error or canceled.
TerminalSeen == observed \cap TerminalStatuses # {}

\* C26 (state part): once a poll returned a terminal status the loop is left,
\* that poll was the last one, and if it was the first poll nothing slept.
LoopLeftAtTerminal ==
    TerminalSeen =>
        /\ pc \in {"timing", "download", "jobfailed", "finally", "returned"}
        /\ prevAnswer \in TerminalStatuses
        /\ Cardinality(observed \cap TerminalStatuses) = 1
        /\ calls["status"] = 1 => sleepCount = 0

\* C26 (step part): after a terminal status no step polls or sleeps.
NoPollAfterTerminal ==
    TerminalSeen => (calls'["status"] = calls["status"] /\ sleepCount' = sleepCount)

\* C26: the loop exits on the first poll that returns finished, error or
\* canceled: no poll and no sleep follows, and a terminal status on the first
\* poll exits without any sleep.
C26_ExitAtFirstTerminal ==
    /\ [](LoopLeftAtTerminal)
    /\ [][NoPollAfterTerminal]_vars

\* C26 witness: the first poll returned canceled and run_task returned
\* without having slept.
C26_Witness ==
    /\ Returned /\ observed = {"canceled"}
    /\ calls["status"] = 1 /\ sleepCount = 0

StillLogStep ==
    /\ stillLogs' # stillLogs =>
          /\ stillLogs' = stillLogs + 1
          /\ check_count' = check_count + 1
          /\ check_count' % StillLogEvery = 0
          /\ pollErrors' = pollErrors
          /\ last_status' = last_status
          /\ prevAnswer' = last_status
          /\ results' = results
          /\ status_times' = status_times
          /\ poll_interval' = NextPollInterval(poll_interval)
          /\ pc' = "loop"
    /\ ( /\ check_count' = check_count + 1
         /\ check_count' % StillLogEvery = 0
         /\ prevAnswer' = last_status )
          => stillLogs' = stillLogs + 1

CallsOnceInOrder ==
    /\ calls["create_job"] <= 1 /\ calls["start"] <= 1 /\ calls["download"] <= 1
    /\ calls["start"] = 1 => (calls["create_job"] = 1 /\ raisedBy # "create_job")
    /\ calls["status"] >= 1 => (calls["start"] = 1 /\ raisedBy # "start")
    /\ calls["download"] = 1 =>
          /\ calls["status"] >= 1
          /\ prevAnswer = "finished"
          /\ observed \cap TerminalStatuses = {"finished"}
          /\ results.job_status = Some("finished")
          /\ ~DeadlineExit(results)

\* C28 (step part): after create_job, start or the download raised, no
\* backend call is made any more.
NoCallAfterRaise ==
    raisedBy \in {"create_job", "start", "download"} => calls' = calls

\* C28: submit, start and download are each invoked at most once and never
\* retried, in the order submit, start, first poll, download; the download
\* happens only after a poll returned finished, never after a timeout or
\* after error or canceled.
C28_CallsOnceInOrder ==
    /\ [](CallsOnceInOrder)
    /\ [][NoCallAfterRaise]_vars

\* C28 witness: a run with a failed poll and several polls made each of
\* create_job, start and the download once, and the download raised.
C28_Witness ==
    /\ Returned /\ raisedBy = "download"
    /\ calls["create_job"] = 1 /\ calls["start"] = 1 /\ calls["download"] = 1
    /\ calls["status"] >= 3 /\ pollErrors >= 1

\* The timing fields of the record.
Timings(r) ==
    << r.submit_time, r.start_job_time, r.job_execution_time, r.download_time,
       r.total_time, r.queue_time, r.processing_time, r.job_status_history >>

\* C29 (step part): the step of the else branch sets status failed and the
\* error of the job's end, calls describe_job once, keeps every timing and
\* goes on to the finally block, whether describe_job returned or raised.
JobFailedStep ==
    pc = "jobfailed" =>
        /\ pc' = "finally"
        /\ calls'["describe_job"] = calls["describe_job"] + 1
        /\ calls["describe_job"] = 0
        /\ results'.status = "failed"
        /\ results'.error = Some(<< "Job ended with status: ", StatusText(results.job_status) >>)
        /\ Timings(results') = Timings(results)
        /\ results'.job_details = (IF describeRaised' THEN None ELSE Some("job_info"))

\* C29 (state part): a record saved after the loop ended without finished is
\* failed, has an error, and describe_job was called once; after a raising
\* describe_job run_task still returns with the record saved.
JobFailedRecord ==
    /\ \A r \in SavedRecords :
          (IsSome(r.job_execution_time) /\ r.job_status # Some("finished")) =>
              /\ r.status = "failed" /\ IsSome(r.error)
              /\ calls["describe_job"] = 1
    /\ describeRaised => pc \in {"finally", "returned"}
    /\ (describeRaised /\ Returned) => (Len(saved) = 1 /\ saved[1].record = results)

\* C29: when the loop ends with error, canceled or by the timeout, the record
\* gets status failed and an error, describe_job is tried once, and a raising
\* describe_job leaves status, error and timings as a returning one does; the
\* record is saved.
C29_DiagnosticsBestEffort ==
    /\ [](JobFailedRecord)
    /\ [][JobFailedStep]_vars

\* C29 witness: the loop ended by the timeout, describe_job raised, and the
\* failed record was saved.
C29_Witness ==
    /\ Returned /\ describeRaised /\ Len(saved) = 1
    /\ DeadlineExit(results) /\ results.status = "failed" /\ IsSome(results.error)

LoopElapsedBounded ==
    pc = "loop" =>
        now - job_start_time <=
            (IF startTook > timeout + pollTime + max_poll_interval
             THEN startTook ELSE timeout + pollTime + max_poll_interval)

====
